---------------------------- MODULE Spec2Model ----------------------------
(***************************************************************************)
(* Model of kw-ad-disapproval-checker.js: the MCC-level disapproval alert  *)
(* script.  main walks CONFIG.LABEL_RECIPIENTS; processGroup resolves the  *)
(* recipient and fans getStats out over the accounts carrying the label;   *)
(* generateOutput merges the workers' results and mails (or, in preview    *)
(* mode, logs) one report per label group.                                 *)
(*                                                                         *)
(* Text whose characters the code inspects (label, to, cc, DEFAULT_TO) is  *)
(* a sequence of chunks: a chunk is one of the characters the code's       *)
(* conversions single out (" ", "&", "<", ">") or a run of other           *)
(* characters.  Every other string is an atom holding none of them.        *)
(***************************************************************************)
EXTENDS Integers, Sequences, FiniteSets, TLC

VARIABLES
    DEFAULT_TO,         \* CONFIG.DEFAULT_TO
    LABEL_RECIPIENTS,   \* CONFIG.LABEL_RECIPIENTS
    PREVIEW,            \* AdWordsApp.getExecutionInfo().isPreview()
    pc,                 \* where the script is
    i,                  \* main's loop index (1-based)
    dispatched,         \* what processGroup resolved for the group in flight
    ctxStr,             \* the context string handed to executeInParallel
    matched,            \* the accounts the selector matched, in order
    results,            \* the ExecutionResults collected so far
    scan,               \* the last getStats call: its account and its `out`
    run,                \* the last generateOutput call
    prev,               \* the generateOutput call before it
    now,                \* the clock new Date() reads
    groupLog,           \* per processed group: what happened to it
    error               \* the uncaught Error that ended the script, if any

vars == << DEFAULT_TO, LABEL_RECIPIENTS, PREVIEW, pc, i, dispatched, ctxStr,
           matched, results, scan, run, prev, now, groupLog, error >>

-----------------------------------------------------------------------------
(* Bounds of the model *)

MaxGroups == 2

MaxAccounts == 2

MaxEntities == 2

MaxClock == 1

MaxRuns == 2

-----------------------------------------------------------------------------
(* CONFIG values the model keeps fixed *)

MAX_ROWS_PER_SECTION == 5000

\* the prefix's leading warning sign is part of the chunk
SUBJECT_PREFIX == <<"(!) Disapprovals">>

FROM_NAME == "Disapproval Monitor"

INCLUDE_ZERO_ROW_SECTIONS == TRUE

-----------------------------------------------------------------------------
(* JavaScript values *)

\* null / undefined
Null == "<null>"

\* String(v) for an atom
JsString(v) == IF v = Null THEN "null" ELSE v

Min(a, b) == IF a < b THEN a ELSE b

RECURSIVE DropSpaces(_)
\* the text without its leading whitespace
DropSpaces(s) ==
    IF s = <<>> THEN <<>>
    ELSE IF Head(s) = " " THEN DropSpaces(Tail(s))
    ELSE s

RECURSIVE Reverse(_)
Reverse(s) == IF s = <<>> THEN <<>> ELSE Append(Reverse(Tail(s)), Head(s))

\* String.prototype.trim
Trim(s) == Reverse(DropSpaces(Reverse(DropSpaces(s))))

\* JSON.stringify
Stringify(v) == [kind |-> "json", doc |-> v]

\* what a worker that did not return hands back
NoValue == [kind |-> "none"]

-----------------------------------------------------------------------------
(* The platform's entities.  An entity is what an iterator yields: its      *)
(* approval status as the platform reports it (Null: the platform reports   *)
(* none) and the one accessor, if any, whose call throws.  `id` is the      *)
(* entity's position in its iterator; it identifies the entity in the       *)
(* records built from it and is not rendered.                               *)

Statuses == {"APPROVED", "APPROVED_LIMITED", "DISAPPROVED", Null}

AdAccessors == {"status", "type", "campaign", "adGroup", "topics", "evidence"}

KeywordAccessors ==
    {"status", "text", "matchType", "campaign", "adGroup", "topics", "evidence"}

AssetAccessors == {"status", "type", "name", "topics", "evidence"}

\* the kinds of entity a category's iterator can yield
Kinds(accessors) ==
    {k \in [status : Statuses, fault : accessors \cup {"none"}] :
        k.fault = "status" => k.status = Null}

\* a category's iterator holding m entities, numbered in order
EntitySeqs(accessors, m) ==
    {[j \in 1..m |-> [id |-> j, status |-> f[j].status, fault |-> f[j].fault]] :
        f \in [1..m -> Kinds(accessors)]}

Categories == {"ads", "keywords", "assets"}

\* how many entities each category of an account holds: MaxEntities at most in all
Shapes ==
    {sh \in [ads : 0..MaxEntities, keywords : 0..MaxEntities, assets : 0..MaxEntities] :
        sh.ads + sh.keywords + sh.assets <= MaxEntities}

\* the accounts of a shape; fetchFault names the category whose selector throws
AccountsOf(sh) ==
    [name : {"Example Client (123-456-7890)"},
     ads : EntitySeqs(AdAccessors, sh.ads),
     keywords : EntitySeqs(KeywordAccessors, sh.keywords),
     assets : EntitySeqs(AssetAccessors, sh.assets),
     fetchFault : Categories \cup {"none"}]

\* the policy topics the platform attaches to an entity
PolicyTopics(e) ==
    CASE e.status = "DISAPPROVED" ->
            << [name |-> "Trademarks", evidences |-> <<"brand term", "brand term">>],
               [name |-> "Trademarks", evidences |-> <<"">>] >>
      [] e.status = "APPROVED_LIMITED" ->
            << [name |-> Null, evidences |-> <<"restricted by law">>] >>
      [] OTHER -> <<>>

\* try { if (typeof fn === 'function') return fn.call(ctx); } catch (e) {} return null;
safeCall_(e, accessor, value) == IF e.fault = accessor THEN Null ELSE value

RECURSIVE Dedup(_, _)
Dedup(arr, outSoFar) ==
    IF arr = <<>> THEN outSoFar
    ELSE LET v == IF Head(arr) = Null THEN "" ELSE Head(arr)
         IN  IF v # "" /\ \A k \in DOMAIN outSoFar : outSoFar[k] # v
             THEN Dedup(Tail(arr), Append(outSoFar, v))
             ELSE Dedup(Tail(arr), outSoFar)

\* trim, drop empties, keep the first of each value, in order
normalizeReasons_(arr) == Dedup(arr, <<>>)

RECURSIVE TopicNames(_)
TopicNames(topics) ==
    IF topics = <<>> THEN <<>>
    ELSE << IF Head(topics).name = Null THEN "Unspecified Policy Topic"
            ELSE Head(topics).name >> \o TopicNames(Tail(topics))

RECURSIVE EvidenceTexts(_)
EvidenceTexts(topics) ==
    IF topics = <<>> THEN <<>>
    ELSE Head(topics).evidences \o EvidenceTexts(Tail(topics))

extractPolicyInfo_(e) ==
    IF e.fault = "topics"
    THEN [topics |-> <<>>, reasons |-> <<>>]
    ELSE [topics  |-> normalizeReasons_(TopicNames(PolicyTopics(e))),
          reasons |-> IF e.fault = "evidence" THEN <<>>
                      ELSE normalizeReasons_(EvidenceTexts(PolicyTopics(e)))]

IsApprovedLowerCase(status) == JsString(status) = "approved"

\* String(status) === 'APPROVED'
IsApproved(status) == JsString(status) = "APPROVED"

\* !aStatus
IsFalsy(status) == status = Null \/ status = ""

\* .withLimit(CONFIG.MAX_ROWS_PER_SECTION).get()
Fetch(entities) == SubSeq(entities, 1, Min(Len(entities), MAX_ROWS_PER_SECTION))

\* the record pushed for an ad; building it calls the unguarded accessors
AdRecord(ad, polStatus) ==
    LET pol == extractPolicyInfo_(ad)
    IN  [id |-> ad.id, type |-> "RESPONSIVE_SEARCH_AD", campaign |-> "Campaign",
         adGroup |-> "Ad group", status |-> polStatus,
         topics |-> pol.topics, reasons |-> pol.reasons]

AdRecordThrows(ad) == ad.fault \in {"type", "campaign", "adGroup"}

RECURSIVE AdLoop(_, _)
\* while (adIter.hasNext()) { ... }: the list built, and whether the loop ended
\* without throwing
AdLoop(entities, list) ==
    IF entities = <<>> THEN [list |-> list, completed |-> TRUE]
    ELSE LET ad == Head(entities)
             polStatus == safeCall_(ad, "status", ad.status)
         IN  IF IsApproved(polStatus) THEN AdLoop(Tail(entities), list)
             ELSE IF AdRecordThrows(ad) THEN [list |-> list, completed |-> FALSE]
             ELSE AdLoop(Tail(entities), Append(list, AdRecord(ad, polStatus)))

KeywordRecord(kw, kwStatus) ==
    LET pol2 == extractPolicyInfo_(kw)
    IN  [id |-> kw.id, text |-> "keyword", matchType |-> "BROAD",
         campaign |-> "Campaign", adGroup |-> "Ad group", status |-> kwStatus,
         topics |-> pol2.topics, reasons |-> pol2.reasons]

KeywordRecordThrows(kw) == kw.fault \in {"text", "matchType", "campaign", "adGroup"}

RECURSIVE KeywordLoop(_, _)
KeywordLoop(entities, list) ==
    IF entities = <<>> THEN [list |-> list, completed |-> TRUE]
    ELSE LET kw == Head(entities)
             kwStatus == safeCall_(kw, "status", kw.status)
         IN  IF IsApproved(kwStatus) THEN KeywordLoop(Tail(entities), list)
             ELSE IF KeywordRecordThrows(kw) THEN [list |-> list, completed |-> FALSE]
             ELSE KeywordLoop(Tail(entities), Append(list, KeywordRecord(kw, kwStatus)))

AssetRecord(asset, aStatus) ==
    LET pol3 == extractPolicyInfo_(asset)
    IN  [id |-> asset.id, assetType |-> safeCall_(asset, "type", "SITELINK"),
         name |-> safeCall_(asset, "name", "Sitelink"), status |-> aStatus,
         topics |-> pol3.topics, reasons |-> pol3.reasons]

RECURSIVE AssetLoop(_, _)
AssetLoop(entities, list) ==
    IF entities = <<>> THEN [list |-> list, completed |-> TRUE]
    ELSE LET asset == Head(entities)
             aStatus == safeCall_(asset, "status", asset.status)
         IN  IF IsFalsy(aStatus) \/ IsApproved(aStatus)
             THEN AssetLoop(Tail(entities), list)
             ELSE AssetLoop(Tail(entities), Append(list, AssetRecord(asset, aStatus)))

\* one category's try block: a throwing fetch leaves the list empty
Category(acct, cat, loop) ==
    IF acct.fetchFault = cat THEN [list |-> <<>>, completed |-> FALSE] ELSE loop

\* totals.<cat> = list.length runs only when the loop ended without throwing
TotalOf(c) == IF c.completed THEN Len(c.list) ELSE 0

\* the `out` object getStats builds for the account
StatsOf(acct) ==
    LET a == Category(acct, "ads", AdLoop(Fetch(acct.ads), <<>>))
        k == Category(acct, "keywords", KeywordLoop(Fetch(acct.keywords), <<>>))
        s == Category(acct, "assets", AssetLoop(Fetch(acct.assets), <<>>))
    IN  [account |-> acct.name, ads |-> a.list, keywords |-> k.list,
         assets |-> s.list,
         totals |-> [ads |-> TotalOf(a), keywords |-> TotalOf(k),
                     assets |-> TotalOf(s)]]

-----------------------------------------------------------------------------
(* Configuration and the manager account's fleet *)

Tos == {<<>>, <<" ">>, <<"sam@example.com", " ">>}

Labels == {<<>>, <<"Sam ", "&", " Co">>}

Ccs == {<<>>, <<" ", "lead@example.com">>}

\* the {label, to, cc} entries a configuration may hold: an entry names a label
\* and a cc, or neither
Groups ==
    {g \in [label : Labels, to : Tos, cc : Ccs] : (g.label = <<>>) <=> (g.cc = <<>>)}

DefaultTos == {<<>>, <<" ">>, <<"reports@example.com">>}

\* the LABEL_RECIPIENTS lists of at most MaxGroups entries
GroupLists == UNION {[1..n -> Groups] : n \in 0..MaxGroups}

Entity(id, status, fault) == [id |-> id, status |-> status, fault |-> fault]

\* the client accounts under the manager account: one with nothing to report,
\* one with two disapproved ads and a limited keyword, one whose ad scan throws
\* on its second ad and which has a disapproved asset
Fleet ==
    << [name |-> "Clean Co (111-111-1111)",
        ads |-> << Entity(1, "APPROVED", "none") >>,
        keywords |-> <<>>, assets |-> <<>>, fetchFault |-> "none"],
       [name |-> "Example Client (123-456-7890)",
        ads |-> << Entity(1, "DISAPPROVED", "none"), Entity(2, "DISAPPROVED", "none") >>,
        keywords |-> << Entity(1, "APPROVED_LIMITED", "none") >>,
        assets |-> <<>>, fetchFault |-> "none"],
       [name |-> "Broken Co (999-999-9999)",
        ads |-> << Entity(1, "DISAPPROVED", "none"), Entity(2, "DISAPPROVED", "campaign") >>,
        keywords |-> <<>>,
        assets |-> << Entity(1, "DISAPPROVED", "name") >>, fetchFault |-> "none"] >>

RECURSIVE Pick(_, _)
\* the members of seq at the indices of idx, in seq's order
Pick(seq, idx) ==
    IF seq = <<>> THEN <<>>
    ELSE LET rest == Pick(Tail(seq), {j - 1 : j \in idx \ {1}})
         IN  IF 1 \in idx THEN <<Head(seq)>> \o rest ELSE rest

\* what MccApp.accounts().withCondition(LabelNames CONTAINS_ANY [label]) may select:
\* any at most MaxAccounts accounts of the fleet
Matches ==
    {Pick(Fleet, idx) : idx \in {x \in SUBSET (1..Len(Fleet)) : Cardinality(x) <= MaxAccounts}}

\* the ExecutionResult of a worker
Returned(out) == [returnValue |-> Stringify(out)]

Failed == [returnValue |-> NoValue]

\* the results executeInParallel may collect from the matched accounts
OutcomesOf(m) ==
    {r \in [1..Len(m) -> {Failed} \cup {Returned(StatsOf(m[j])) : j \in 1..Len(m)}] :
        \A j \in 1..Len(m) : r[j] \in {Failed, Returned(StatsOf(m[j]))}}

NoRun == [kind |-> "none"]

NoScan == [kind |-> "none"]

NoDispatch == [kind |-> "none"]

NoError == "none"

-----------------------------------------------------------------------------
(* main and processGroup *)

\* (x && x.to) ? String(x.to).trim() : (CONFIG.DEFAULT_TO || '')
ResolveRecipient(to) == IF to # <<>> THEN Trim(to) ELSE DEFAULT_TO

\* (x && x.cc) ? String(x.cc).trim() : ''
ResolveCc(cc) == IF cc # <<>> THEN Trim(cc) ELSE <<>>

GroupLabel(group) == IF group.label # <<>> THEN group.label ELSE <<"(Unnamed Label)">>

LogEntry(index, skipped) ==
    [index |-> index, skipped |-> skipped, fanouts |-> IF skipped THEN 0 ELSE 1,
     aggregated |-> FALSE, sends |-> 0, previews |-> 0]

Main ==
    /\ pc = "start"
    /\ IF LABEL_RECIPIENTS = <<>>
       THEN /\ pc' = "failed"
            /\ error' = "CONFIG.LABEL_RECIPIENTS is empty"
            /\ i' = i
       ELSE /\ pc' = "main"
            /\ error' = error
            /\ i' = 1
    /\ UNCHANGED << DEFAULT_TO, LABEL_RECIPIENTS, PREVIEW, dispatched, ctxStr,
                    matched, results, scan, run, prev, now, groupLog >>

SkipGroupThrows ==
    /\ pc = "main"
    /\ i <= Len(LABEL_RECIPIENTS)
    /\ ResolveRecipient(LABEL_RECIPIENTS[i].to) = <<>>
    /\ groupLog' = Append(groupLog, LogEntry(i, TRUE))
    /\ pc' = "failed"
    /\ error' = "no recipient is configured"
    /\ UNCHANGED << DEFAULT_TO, LABEL_RECIPIENTS, PREVIEW, i, dispatched, ctxStr,
                    matched, results, scan, run, prev, now >>

\* processGroup for a group whose recipient resolves to nothing: log and return
SkipGroup ==
    /\ pc = "main"
    /\ i <= Len(LABEL_RECIPIENTS)
    /\ ResolveRecipient(LABEL_RECIPIENTS[i].to) = <<>>
    /\ groupLog' = Append(groupLog, LogEntry(i, TRUE))
    /\ i' = i + 1
    /\ UNCHANGED << DEFAULT_TO, LABEL_RECIPIENTS, PREVIEW, pc, dispatched, ctxStr,
                    matched, results, scan, run, prev, now, error >>

\* processGroup up to and including the call of executeInParallel
ProcessGroup ==
    /\ pc = "main"
    /\ i <= Len(LABEL_RECIPIENTS)
    /\ LET group == LABEL_RECIPIENTS[i]
           recipient == ResolveRecipient(group.to)
           label == GroupLabel(group)
           ctx == [label |-> label, to |-> recipient, cc |-> ResolveCc(group.cc)]
       IN  /\ recipient # <<>>
           /\ dispatched' = ctx
           /\ ctxStr' = Stringify(ctx)
    /\ \E m \in Matches : matched' = m
    /\ results' = <<>>
    /\ scan' = NoScan
    /\ run' = NoRun
    /\ prev' = NoRun
    /\ groupLog' = Append(groupLog, LogEntry(i, FALSE))
    /\ pc' = "workers"
    /\ UNCHANGED << DEFAULT_TO, LABEL_RECIPIENTS, PREVIEW, i, now, error >>

\* main's loop has run off the end of the list
MainReturn ==
    /\ pc = "main"
    /\ i > Len(LABEL_RECIPIENTS)
    /\ pc' = "done"
    /\ UNCHANGED << DEFAULT_TO, LABEL_RECIPIENTS, PREVIEW, i, dispatched, ctxStr,
                    matched, results, scan, run, prev, now, groupLog, error >>

-----------------------------------------------------------------------------
(* The per-account worker *)

GetStats ==
    /\ pc = "workers"
    /\ Len(results) < Len(matched)
    /\ LET acct == matched[Len(results) + 1]
           out == StatsOf(acct)
       IN  /\ scan' = [kind |-> "scan", account |-> acct, out |-> out]
           /\ results' = Append(results, Returned(out))
    /\ UNCHANGED << DEFAULT_TO, LABEL_RECIPIENTS, PREVIEW, pc, i, dispatched, ctxStr,
                    matched, run, prev, now, groupLog, error >>

\* the worker ends without a return value (it threw outside its try blocks, or
\* the platform gave up on the account)
WorkerFails ==
    /\ pc = "workers"
    /\ Len(results) < Len(matched)
    /\ results' = Append(results, Failed)
    /\ UNCHANGED << DEFAULT_TO, LABEL_RECIPIENTS, PREVIEW, pc, i, dispatched, ctxStr,
                    matched, scan, run, prev, now, groupLog, error >>

-----------------------------------------------------------------------------
(* generateOutput and its helpers *)

\* try { return JSON.parse(s); } catch (e) { return null; }
parseSafe_(s) ==
    IF s.kind = "json" THEN [ok |-> TRUE, value |-> s.doc] ELSE [ok |-> FALSE]

\* try { ctx = JSON.parse(contextStr || '{}'); } catch (e) {}
ParseContext(contextStr) ==
    IF contextStr.kind = "json" THEN contextStr.doc
    ELSE [label |-> <<>>, to |-> <<>>, cc |-> <<>>]

\* (ctx && ctx.to) ? String(ctx.to).trim() : (CONFIG.DEFAULT_TO || '')
ContextRecipient(ctx) == IF ctx.to # <<>> THEN Trim(ctx.to) ELSE DEFAULT_TO

\* (ctx && ctx.cc) ? String(ctx.cc).trim() : ''
ContextCc(ctx) == IF ctx.cc # <<>> THEN Trim(ctx.cc) ELSE <<>>

\* (ctx && ctx.label) ? ctx.label : '(Unlabeled Group)'
ContextLabel(ctx) == IF ctx.label # <<>> THEN ctx.label ELSE <<"(Unlabeled Group)">>

EmptyMerged(labelName) ==
    [label |-> labelName, rows |-> <<>>,
     totals |-> [ads |-> 0, keywords |-> 0, assets |-> 0, accounts |-> 0]]

MergeOutcomeCountingFailures(merged, res) ==
    LET parsed == parseSafe_(res.returnValue)
    IN  IF ~parsed.ok THEN [merged EXCEPT !.totals.accounts = @ + 1]
        ELSE LET payload == parsed.value
             IN  [label |-> merged.label,
                  rows |-> Append(merged.rows,
                              [account |-> payload.account, ads |-> payload.ads,
                               keywords |-> payload.keywords, assets |-> payload.assets]),
                  totals |-> [accounts |-> merged.totals.accounts + 1,
                              ads |-> merged.totals.ads + payload.totals.ads,
                              keywords |-> merged.totals.keywords + payload.totals.keywords,
                              assets |-> merged.totals.assets + payload.totals.assets]]

\* one turn of the loop over results
MergeOutcome(merged, res) ==
    LET parsed == parseSafe_(res.returnValue)
    IN  IF ~parsed.ok THEN merged
        ELSE LET payload == parsed.value
             IN  [label |-> merged.label,
                  rows |-> Append(merged.rows,
                              [account |-> payload.account, ads |-> payload.ads,
                               keywords |-> payload.keywords, assets |-> payload.assets]),
                  totals |-> [accounts |-> merged.totals.accounts + 1,
                              ads |-> merged.totals.ads + payload.totals.ads,
                              keywords |-> merged.totals.keywords + payload.totals.keywords,
                              assets |-> merged.totals.assets + payload.totals.assets]]

RECURSIVE MergeAll(_, _)
MergeAll(merged, rs) ==
    IF rs = <<>> THEN merged ELSE MergeAll(MergeOutcome(merged, Head(rs)), Tail(rs))

EscChunk(c) ==
    CASE c = "&" -> "&amp;" [] c = "<" -> "&lt;" [] c = ">" -> "&gt;" [] OTHER -> c

\* escHtml_ of a text
escHtml_(text) == [j \in DOMAIN text |-> EscChunk(text[j])]

\* escHtml_ of an atom: null and undefined give ''
EscAtom(v) == IF v = Null THEN "" ELSE v

\* arr && arr.join(sep)
Join(arr, sep) == [sep |-> sep, parts |-> [j \in DOMAIN arr |-> EscAtom(arr[j])]]

td_(v) == EscAtom(v)

AdCells(ad) ==
    [type |-> td_(ad.type), campaign |-> td_(ad.campaign), adGroup |-> td_(ad.adGroup),
     status |-> td_(ad.status), topics |-> Join(ad.topics, ", "),
     reasons |-> Join(ad.reasons, "; ")]

KeywordCells(kw) ==
    [text |-> td_(kw.text), matchType |-> td_(kw.matchType),
     campaign |-> td_(kw.campaign), adGroup |-> td_(kw.adGroup),
     status |-> td_(kw.status), topics |-> Join(kw.topics, ", "),
     reasons |-> Join(kw.reasons, "; ")]

AssetCells(as) ==
    [assetType |-> td_(as.assetType), name |-> td_(as.name), status |-> td_(as.status),
     topics |-> Join(as.topics, ", "), reasons |-> Join(as.reasons, "; ")]

sectionHeader_(title, count) == [k |-> "h4", title |-> title, count |-> count]

emptyNote_ == [k |-> "div", text |-> "None"]

\* one category's sub-section of an account: header, then table or "None"
Section(title, cells) ==
    IF Len(cells) > 0 \/ INCLUDE_ZERO_ROW_SECTIONS
    THEN << sectionHeader_(title, Len(cells)),
            IF Len(cells) > 0 THEN [k |-> "table", title |-> title, rows |-> cells]
            ELSE emptyNote_ >>
    ELSE <<>>

RowHtml(row) ==
    << [k |-> "h3", account |-> EscAtom(row.account)] >>
    \o Section("Ads", [j \in DOMAIN row.ads |-> AdCells(row.ads[j])])
    \o Section("Keywords", [j \in DOMAIN row.keywords |-> KeywordCells(row.keywords[j])])
    \o Section("Assets / Extensions (best-effort)",
               [j \in DOMAIN row.assets |-> AssetCells(row.assets[j])])

RECURSIVE RowsHtml(_)
RowsHtml(rows) == IF rows = <<>> THEN <<>> ELSE RowHtml(Head(rows)) \o RowsHtml(Tail(rows))

RenderHtmlNumbered(merged, labelName, stamp) ==
    << [k |-> "h2", prefix |-> escHtml_(SUBJECT_PREFIX), label |-> escHtml_(labelName)],
       [k |-> "p", accounts |-> merged.totals.accounts + i, ads |-> merged.totals.ads,
        keywords |-> merged.totals.keywords, assets |-> merged.totals.assets] >>
    \o (IF Len(merged.rows) = 0
        THEN << [k |-> "p", noAccountsMatched |-> escHtml_(labelName)] >>
        ELSE RowsHtml(merged.rows))
    \o << [k |-> "p", sent |-> stamp, preview |-> PREVIEW] >>

\* the pieces pushed on `html`, in order; stamp is new Date().toLocaleString()
RenderHtml(merged, labelName, stamp) ==
    << [k |-> "h2", prefix |-> escHtml_(SUBJECT_PREFIX), label |-> escHtml_(labelName)],
       [k |-> "p", accounts |-> merged.totals.accounts, ads |-> merged.totals.ads,
        keywords |-> merged.totals.keywords, assets |-> merged.totals.assets] >>
    \o (IF Len(merged.rows) = 0
        THEN << [k |-> "p", noAccountsMatched |-> escHtml_(labelName)] >>
        ELSE RowsHtml(merged.rows))
    \o << [k |-> "p", sent |-> stamp, preview |-> PREVIEW] >>

\* replace every tag by a space: the pieces' text without their markup
stripHtml_(html) == [j \in DOMAIN html |-> [html[j] EXCEPT !.k = " "]]

buildSubjectOffByOne(labelName, total, totals) ==
    [prefix |-> SUBJECT_PREFIX, label |-> labelName,
     statusFlag |-> IF total > 1 THEN "FOUND" ELSE "NONE",
     ads |-> totals.ads, kw |-> totals.keywords, assets |-> totals.assets]

buildSubject_(labelName, total, totals) ==
    [prefix |-> SUBJECT_PREFIX, label |-> labelName,
     statusFlag |-> IF total > 0 THEN "FOUND" ELSE "NONE",
     ads |-> totals.ads, kw |-> totals.keywords, assets |-> totals.assets]

\* the group's log entry after one more send or preview log line
Delivered(entry) ==
    IF PREVIEW THEN [entry EXCEPT !.aggregated = TRUE, !.previews = @ + 1]
    ELSE [entry EXCEPT !.aggregated = TRUE, !.sends = @ + 1]

GenerateOutput ==
    /\ pc = "workers"
    /\ Len(results) = Len(matched)
    /\ LET ctx == ParseContext(ctxStr)
           recipient == ContextRecipient(ctx)
           cc == ContextCc(ctx)
           labelName == ContextLabel(ctx)
       IN  IF recipient = <<>>
           THEN /\ error' = "Failed to send email: no recipient"
                /\ pc' = "failed"
                /\ run' = [kind |-> "run", raised |-> TRUE, results |-> results,
                           contextStr |-> ctxStr]
                /\ groupLog' = [groupLog EXCEPT ![Len(groupLog)].aggregated = TRUE]
                /\ UNCHANGED << i, now >>
           ELSE \E stamp \in now..MaxClock :
                LET merged == MergeAll(EmptyMerged(labelName), results)
                    totalIssues == merged.totals.ads + merged.totals.keywords
                                   + merged.totals.assets
                    html == RenderHtml(merged, labelName, stamp)
                    subject == buildSubject_(labelName, totalIssues, merged.totals)
                    mailOptions == [name |-> FROM_NAME, htmlBody |-> html, cc |-> cc]
                IN  /\ run' = [kind |-> "run", raised |-> FALSE, results |-> results,
                               contextStr |-> ctxStr, recipient |-> recipient,
                               cc |-> cc, label |-> labelName, merged |-> merged,
                               subject |-> subject, html |-> html, stamp |-> stamp,
                               sent |-> ~PREVIEW,
                               mail |-> [to |-> recipient, subject |-> subject,
                                         body |-> stripHtml_(html),
                                         options |-> mailOptions]]
                    /\ now' = stamp
                    /\ groupLog' = [groupLog EXCEPT ![Len(groupLog)] = Delivered(@)]
                    /\ pc' = "main"
                    /\ i' = i + 1
                    /\ error' = error
    /\ prev' = run
    /\ UNCHANGED << DEFAULT_TO, LABEL_RECIPIENTS, PREVIEW, dispatched, ctxStr,
                    matched, results, scan >>

\* generateOutput is handed the same results and context once more
Rerun ==
    /\ pc = "main"
    /\ run.kind = "run"
    /\ i <= MaxRuns
    /\ pc' = "workers"
    /\ UNCHANGED << DEFAULT_TO, LABEL_RECIPIENTS, PREVIEW, i, dispatched, ctxStr,
                    matched, results, scan, run, prev, now, groupLog, error >>

-----------------------------------------------------------------------------
(* Specifications *)

TypeDefaults ==
    /\ dispatched = NoDispatch
    /\ ctxStr = NoValue
    /\ matched = <<>>
    /\ results = <<>>
    /\ scan = NoScan
    /\ run = NoRun
    /\ prev = NoRun
    /\ now = 0
    /\ error = NoError

\* the script as the platform starts it
Init ==
    /\ DEFAULT_TO \in DefaultTos
    /\ LABEL_RECIPIENTS \in GroupLists
    /\ PREVIEW \in BOOLEAN
    /\ pc = "start"
    /\ i = 0
    /\ groupLog = <<>>
    /\ TypeDefaults

Next == Main \/ SkipGroup \/ ProcessGroup \/ GetStats \/ WorkerFails
           \/ GenerateOutput \/ MainReturn

Spec == Init /\ [][Next]_vars

\* one worker on one account, for every account of the bounded set
InitScan ==
    /\ DEFAULT_TO = <<"reports@example.com">>
    /\ LABEL_RECIPIENTS = << [label |-> <<"Managed by Sam">>,
                              to |-> <<"sam@example.com">>, cc |-> <<>>] >>
    /\ PREVIEW = FALSE
    /\ pc = "workers"
    /\ i = 1
    /\ groupLog = << LogEntry(1, FALSE) >>
    /\ dispatched = NoDispatch
    /\ ctxStr = NoValue
    /\ \E sh \in Shapes : \E a \in AccountsOf(sh) : matched = <<a>>
    /\ results = <<>>
    /\ scan = NoScan
    /\ run = NoRun
    /\ prev = NoRun
    /\ now = 0
    /\ error = NoError

SpecScan == InitScan /\ [][GetStats]_vars

\* the aggregation step on its own: any results of any matched accounts, any
\* context string processGroup can build, called up to MaxRuns times over
InitAgg ==
    /\ DEFAULT_TO \in DefaultTos
    /\ PREVIEW \in BOOLEAN
    /\ \E g \in Groups :
          /\ LABEL_RECIPIENTS = <<g>>
          /\ ResolveRecipient(g.to) # <<>>
          /\ dispatched = [label |-> GroupLabel(g), to |-> ResolveRecipient(g.to),
                           cc |-> ResolveCc(g.cc)]
          /\ ctxStr = Stringify(dispatched)
    /\ \E m \in Matches : /\ matched = m
                          /\ results \in OutcomesOf(m)
    /\ pc = "workers"
    /\ i = 1
    /\ groupLog = << LogEntry(1, FALSE) >>
    /\ scan = NoScan
    /\ run = NoRun
    /\ prev = NoRun
    /\ now = 0
    /\ error = NoError

NextAgg == GenerateOutput \/ Rerun

SpecAgg == InitAgg /\ [][NextAgg]_vars

-----------------------------------------------------------------------------
(* Properties of the account scan (SpecScan) *)

\* how often the entity numbered id is in a list
Count(list, id) == Cardinality({j \in DOMAIN list : list[j].id = id})

\* the status the code reads from an entity: null when the read throws
StatusRead(e) == IF e.fault = "status" THEN Null ELSE e.status

\* the categories whose selector returned an iterator
Enumerated == {cat \in Categories : scan.account.fetchFault # cat}

\* C1: in every account scan, an entity whose approval status reads exactly
\* APPROVED is in none of the lists of the result.
C1_ApprovedNeverListed ==
    scan.kind = "scan" =>
        \A cat \in Categories :
            \A j \in DOMAIN scan.account[cat] :
                LET e == scan.account[cat][j]
                IN  (e.fault # "status" /\ e.status = "APPROVED")
                        => Count(scan.out[cat], e.id) = 0

\* a scan that lists a disapproved ad and leaves out the approved ad before it
C1_Witness ==
    /\ scan.kind = "scan"
    /\ Len(scan.account.ads) = 2
    /\ scan.account.ads[1].status = "APPROVED"
    /\ scan.account.ads[1].fault = "none"
    /\ Len(scan.out.ads) = 1
    /\ scan.out.ads[1].id = 2

\* C2: every enumerated ad or keyword whose status is not APPROVED, or whose
\* status read fails, is exactly once in its list; an enumerated asset is exactly
\* once in its list when its status is present and not APPROVED, and not at all
\* when its status read fails or gives nothing.
C2_ListedExactlyOnce ==
    scan.kind = "scan" =>
        /\ \A cat \in Enumerated \cap {"ads", "keywords"} :
              \A j \in DOMAIN scan.account[cat] :
                  LET e == scan.account[cat][j]
                  IN  StatusRead(e) # "APPROVED" => Count(scan.out[cat], e.id) = 1
        /\ \A cat \in Enumerated \cap {"assets"} :
              \A j \in DOMAIN scan.account[cat] :
                  LET e == scan.account[cat][j]
                  IN  /\ StatusRead(e) \notin {"APPROVED", Null}
                            => Count(scan.out[cat], e.id) = 1
                      /\ StatusRead(e) = Null => Count(scan.out[cat], e.id) = 0

\* C3: in every result of getStats each count is the length of its list.
C3_TotalsAreLengths ==
    scan.kind = "scan" =>
        /\ scan.out.totals.ads = Len(scan.out.ads)
        /\ scan.out.totals.keywords = Len(scan.out.keywords)
        /\ scan.out.totals.assets = Len(scan.out.assets)

\* the entity is one a scan that reaches it lists
Reportable(cat, e) ==
    IF cat = "assets" THEN StatusRead(e) \notin {"APPROVED", Null}
    ELSE StatusRead(e) # "APPROVED"

\* C10: when a single accessor call fails on one entity of a category, the loop
\* goes on: that entity and every entity the iterator yields after it are listed
\* if they are not approved.
C10_AccessorFailureNeverAborts ==
    scan.kind = "scan" =>
        \A cat \in Enumerated :
            LET es == scan.account[cat]
            IN  \A j \in DOMAIN es :
                    (/\ es[j].fault # "none"
                     /\ \A k \in DOMAIN es : k # j => es[k].fault = "none")
                    => \A k \in j..Len(es) :
                          Reportable(cat, es[k]) => Count(scan.out[cat], es[k].id) = 1

-----------------------------------------------------------------------------
(* Properties of the aggregation and of the run (Spec, SpecAgg) *)

\* generateOutput ran and did not throw
Aggregated == run.kind = "run" /\ ~run.raised

\* the results that carry a return value, in order
ReturnedOnes(rs) == SelectSeq(rs, LAMBDA r : r.returnValue.kind = "json")

RECURSIVE SumOfTotals(_, _)
SumOfTotals(rs, cat) ==
    IF rs = <<>> THEN 0
    ELSE Head(rs).returnValue.doc.totals[cat] + SumOfTotals(Tail(rs), cat)

\* C4: the merged totals are the sums over exactly the outcomes that returned a
\* value, the account count is their number, and there is one row per such
\* outcome, in outcome order.
C4_MergedTotalsAreSums ==
    Aggregated =>
        LET ok == ReturnedOnes(run.results)
            m == run.merged
        IN  /\ m.totals.ads = SumOfTotals(ok, "ads")
            /\ m.totals.keywords = SumOfTotals(ok, "keywords")
            /\ m.totals.assets = SumOfTotals(ok, "assets")
            /\ m.totals.accounts = Len(ok)
            /\ Len(m.rows) = Len(ok)
            /\ \A j \in DOMAIN ok :
                  /\ m.rows[j].account = ok[j].returnValue.doc.account
                  /\ m.rows[j].ads = ok[j].returnValue.doc.ads
                  /\ m.rows[j].keywords = ok[j].returnValue.doc.keywords
                  /\ m.rows[j].assets = ok[j].returnValue.doc.assets

\* two outcomes, the first without a return value, the second with two ads
C4_Witness ==
    /\ Aggregated
    /\ Len(run.results) = 2
    /\ run.results[1] = Failed
    /\ run.merged.totals.ads = 2
    /\ run.merged.totals.accounts = 1

NoRecipient(g) == LABEL_RECIPIENTS[g].to = <<>> /\ DEFAULT_TO = <<>>

\* C6: a group with no `to` and no configured default gets no fan-out and no
\* email and raises nothing; the groups are processed in configuration order,
\* each at most once, and a run with no default that gets past the
\* configuration check reaches every group.
C6_MissingRecipientSkipsGroup ==
    /\ Len(groupLog) <= Len(LABEL_RECIPIENTS)
    /\ \A g \in DOMAIN groupLog :
          /\ groupLog[g].index = g
          /\ NoRecipient(g) =>
                /\ groupLog[g].skipped
                /\ groupLog[g].fanouts = 0
                /\ ~groupLog[g].aggregated
                /\ groupLog[g].sends = 0
                /\ groupLog[g].previews = 0
    /\ (groupLog # <<>> /\ NoRecipient(Len(groupLog))) =>
          /\ pc \in {"main", "done"}
          /\ error = NoError
          /\ i = Len(groupLog) + 1
    /\ pc = "done" => Len(groupLog) = Len(LABEL_RECIPIENTS)
    /\ (DEFAULT_TO = <<>> /\ LABEL_RECIPIENTS # <<>>) => error = NoError

\* a finished run whose first group was skipped for want of a recipient and
\* whose second group was mailed
C6_Witness ==
    /\ pc = "done"
    /\ Len(groupLog) = 2
    /\ NoRecipient(1)
    /\ groupLog[1].skipped
    /\ groupLog[2].sends = 1

\* C7: whenever the aggregator runs for a group it ends in exactly one send
\* (not in preview mode) or in no send and one preview log line (in preview
\* mode); for a label matching no account the report has no rows, says that no
\* accounts matched, and is still delivered.
C7_AggregatorAlwaysDelivers ==
    /\ \A g \in DOMAIN groupLog :
          groupLog[g].aggregated =>
              /\ groupLog[g].sends = (IF PREVIEW THEN 0 ELSE 1)
              /\ groupLog[g].previews = (IF PREVIEW THEN 1 ELSE 0)
    /\ (run.kind = "run" /\ matched = <<>>) =>
          /\ ~run.raised
          /\ run.merged.rows = <<>>
          /\ \E j \in DOMAIN run.html :
                run.html[j] = [k |-> "p", noAccountsMatched |-> escHtml_(run.label)]

\* two calls of generateOutput on the same results and the same context
SameArguments ==
    /\ run.kind = "run"
    /\ prev.kind = "run"
    /\ ~run.raised
    /\ ~prev.raised
    /\ run.results = prev.results
    /\ run.contextStr = prev.contextStr

Undated(html) == [html EXCEPT ![Len(html)].sent = 0]

C9_SameResolution ==
    run.kind = "run" =>
        /\ ~run.raised
        /\ run.label = dispatched.label
        /\ run.recipient = dispatched.to
        /\ run.cc = dispatched.cc
        /\ run.mail.to = dispatched.to

=============================================================================
